---- MODULE Spec2Model ----
(***************************************************************************)
(* Model of logic_gen_tool.py: the Circuit class (gate list, nested        *)
(* coordinate index, id counter, wiring), the decoder and look-up-table    *)
(* builders and the default bit function square_func.                      *)
(*                                                                         *)
(* Python strings are modelled as sequences of one-character strings, the  *)
(* nested dict index_lut as a function of functions of functions whose     *)
(* DOMAINs are the keys present, and an exception as the flag exc.         *)
(***************************************************************************)
EXTENDS Integers, Sequences, FiniteSets, TLC

VARIABLES
    logic_gates,        \* Circuit.logic_gates: sequence of gate records (slot s is element s+1)
    index_lut,          \* Circuit.index_lut: px -> py -> pz -> slot
    id_counter,         \* Circuit.id_counter
    pc,                 \* position of the running program
    exc,                \* exception raised by the last call, or NoExc
    call,               \* the Circuit method the driver called last, with its arguments
    nwires,             \* number of wire_gates calls made by the driver
    entry,              \* builder entered: "create_decoder" or "create_lut"
    address_bit_width,  \* builder argument
    output_bit_width,   \* builder argument
    str_function,       \* builder argument: name of the bit function
    n,                  \* builder local n
    split,              \* builder local split
    index,              \* builder local index
    ox,                 \* builder loop variable ox
    oy,                 \* builder loop variable oy
    sq_args,            \* arguments of the square_func call
    sq_ret              \* value returned by square_func

vars == <<logic_gates, index_lut, id_counter, pc, exc, call, nwires, entry,
          address_bit_width, output_bit_width, str_function, n, split, index, ox, oy,
          sq_args, sq_ret>>

circuit_vars == <<logic_gates, index_lut, id_counter>>
builder_vars == <<entry, address_bit_width, output_bit_width, str_function, n, split,
                  index, ox, oy>>
square_vars == <<sq_args, sq_ret>>
driver_vars == <<call, nwires>>

(***************************************************************************)
(* Bounds of the model.                                                    *)
(***************************************************************************)
MaxGates == 2       \* gates placed by the driver of the Circuit methods
MaxWires == 1       \* wire_gates calls made by that driver
MaxArity == 3       \* longest position list handed to wire_gates
MaxWidth == 6       \* largest address_bit_width handed to the builders
MaxOutWidth == 4    \* largest output_bit_width handed to create_lut
MaxIndex == 24      \* largest index handed to square_func on its own

(***************************************************************************)
(* Python values.                                                          *)
(***************************************************************************)
None == -1
NoExc == "none"

RECURSIVE Pow2(_)
Pow2(k) == IF k <= 0 THEN 1 ELSE 2 * Pow2(k - 1)

\* bin(v)[2:] for v >= 0: binary digits, most significant first, "0" for 0.
RECURSIVE BinDigits(_)
BinDigits(v) ==
    IF v < 2 THEN <<IF v = 1 THEN "1" ELSE "0">>
    ELSE BinDigits(v \div 2) \o <<IF v % 2 = 1 THEN "1" ELSE "0">>

\* k * "0": the empty string when k <= 0.
Zeros(k) == IF k <= 0 THEN <<>> ELSE [i \in 1..k |-> "0"]

\* s[::-1]
Reversed(s) == [i \in 1..Len(s) |-> s[Len(s) + 1 - i]]

\* int(char) for a binary digit
IntOfChar(char) == IF char = "1" THEN 1 ELSE 0

\* round(w - 0.5): Python 3 rounds a tie to the even neighbour, w - 1 or w.
RoundHalf(w) == IF (w - 1) % 2 = 0 THEN w - 1 ELSE w

(***************************************************************************)
(* LogicGate                                                               *)
(***************************************************************************)
ModeCode(mode) ==
    CASE mode = "and" -> 0
      [] mode = "or" -> 1
      [] mode = "xor" -> 2
      [] mode = "nand" -> 3
      [] mode = "nor" -> 4
      [] mode = "xnor" -> 5
      [] OTHER -> 0

LogicGate(position, mode, color) ==
    [position |-> position, mode |-> ModeCode(mode), color |-> color,
     connections |-> <<>>]

\* logic_gates[slot].connect_to(id_)
connect_to(gates, slot, id_) ==
    [gates EXCEPT ![slot + 1].connections = Append(@, id_)]

(***************************************************************************)
(* Circuit: a circuit value c is the record of the three fields.           *)
(***************************************************************************)
EmptyCircuit == [logic_gates |-> <<>>, index_lut |-> <<>>, id_counter |-> 0]

Circ == [logic_gates |-> logic_gates, index_lut |-> index_lut, id_counter |-> id_counter]

\* d.get(k) is not None, for a dict d whose values are never None
HasKey(d, k) == k \in DOMAIN d

is_solid(c, position) ==
    LET px == position[1]
        py == position[2]
        pz == position[3]
    IN  IF ~HasKey(c.index_lut, px) THEN FALSE
        ELSE IF ~HasKey(c.index_lut[px], py) THEN FALSE
        ELSE IF ~HasKey(c.index_lut[px][py], pz) THEN FALSE
        ELSE TRUE

get_block(c, position) ==
    LET px == position[1]
        py == position[2]
        pz == position[3]
        d1 == IF HasKey(c.index_lut, px) THEN c.index_lut[px] ELSE <<>>
        d2 == IF HasKey(d1, py) THEN d1[py] ELSE <<>>
    IN  IF HasKey(d2, pz) THEN d2[pz] ELSE None

\* d[k] = v on a dict
SetKey(d, k, v) == [x \in (DOMAIN d) \cup {k} |-> IF x = k THEN v ELSE d[x]]

\* generate_lut written without the test of the innermost key: the slot is
\* registered again on every placement.
generate_lut_overwriting(c, position) ==
    LET px == position[1]
        py == position[2]
        pz == position[3]
        l1 == IF ~HasKey(c.index_lut, px) THEN SetKey(c.index_lut, px, <<>>)
              ELSE c.index_lut
        l2 == IF ~HasKey(l1[px], py) THEN SetKey(l1, px, SetKey(l1[px], py, <<>>))
              ELSE l1
        l3 == SetKey(l2, px, SetKey(l2[px], py, SetKey(l2[px][py], pz, c.id_counter)))
    IN  [c EXCEPT !.index_lut = l3, !.id_counter = c.id_counter + 1]

\* generate_lut advancing the counter once more when it registers a new coordinate.
generate_lut_counting_twice(c, position) ==
    LET px == position[1]
        py == position[2]
        pz == position[3]
        l1 == IF ~HasKey(c.index_lut, px) THEN SetKey(c.index_lut, px, <<>>)
              ELSE c.index_lut
        l2 == IF ~HasKey(l1[px], py) THEN SetKey(l1, px, SetKey(l1[px], py, <<>>))
              ELSE l1
        fresh == ~HasKey(l2[px][py], pz)
        l3 == IF fresh
              THEN SetKey(l2, px, SetKey(l2[px], py, SetKey(l2[px][py], pz, c.id_counter)))
              ELSE l2
    IN  [c EXCEPT !.index_lut = l3,
                  !.id_counter = c.id_counter + (IF fresh THEN 2 ELSE 1)]

generate_lut(c, position) ==
    LET px == position[1]
        py == position[2]
        pz == position[3]
        l1 == IF ~HasKey(c.index_lut, px) THEN SetKey(c.index_lut, px, <<>>)
              ELSE c.index_lut
        l2 == IF ~HasKey(l1[px], py) THEN SetKey(l1, px, SetKey(l1[px], py, <<>>))
              ELSE l1
        l3 == IF ~HasKey(l2[px][py], pz)
              THEN SetKey(l2, px, SetKey(l2[px], py, SetKey(l2[px][py], pz, c.id_counter)))
              ELSE l2
    IN  [c EXCEPT !.index_lut = l3, !.id_counter = c.id_counter + 1]

add_logic(c, logic_gate) ==
    generate_lut([c EXCEPT !.logic_gates = Append(@, logic_gate)], logic_gate.position)

\* The wiring loop connecting the wrong way round: dst(i) -> src(i).
RECURSIVE WireLoopBackwards(_, _, _, _, _, _)
WireLoopBackwards(c, input_pos, output_pos, both, i, last) ==
    IF i > last THEN c
    ELSE LET a == IF Len(input_pos) = 1 /\ ~both THEN input_pos[1] ELSE input_pos[i]
             b == IF Len(output_pos) = 1 /\ ~both THEN output_pos[1] ELSE output_pos[i]
             ok == is_solid(c, a) /\ is_solid(c, b)
             c2 == IF ok
                   THEN [c EXCEPT !.logic_gates =
                            connect_to(@, get_block(c, b), get_block(c, a))]
                   ELSE c
         IN  WireLoopBackwards(c2, input_pos, output_pos, both, i + 1, last)

\* The loop of a branch of wire_gates from index i on: the gate at src(i) is
\* connected to the gate at dst(i) unless a coordinate is unoccupied.  With both
\* the lists are walked in step; otherwise the list of length 1 supplies its only
\* position to every iteration (the fan branches test that position once, before
\* the loop: index_lut does not change during the call).
RECURSIVE WireLoop(_, _, _, _, _, _)
WireLoop(c, input_pos, output_pos, both, i, last) ==
    IF i > last THEN c
    ELSE LET a == IF Len(input_pos) = 1 /\ ~both THEN input_pos[1] ELSE input_pos[i]
             b == IF Len(output_pos) = 1 /\ ~both THEN output_pos[1] ELSE output_pos[i]
             ok == is_solid(c, a) /\ is_solid(c, b)
             c2 == IF ok
                   THEN [c EXCEPT !.logic_gates =
                            connect_to(@, get_block(c, a), get_block(c, b))]
                   ELSE c
         IN  WireLoop(c2, input_pos, output_pos, both, i + 1, last)

\* The branches of wire_gates without the fan-in branch.
WireBranchNoFanIn(input_pos, output_pos) ==
    IF Len(input_pos) = Len(output_pos) THEN "pairwise"
    ELSE IF Len(input_pos) = 1 THEN "fan_out"
    ELSE "raise"

\* The branch of wire_gates taken: "pairwise", "fan_out", "fan_in" or "raise".
WireBranch(input_pos, output_pos) ==
    IF Len(input_pos) = Len(output_pos) THEN "pairwise"
    ELSE IF Len(input_pos) = 1 THEN "fan_out"
    ELSE IF Len(output_pos) = 1 THEN "fan_in"
    ELSE "raise"

WireRaises(input_pos, output_pos) == WireBranch(input_pos, output_pos) = "raise"

wire_gates(c, input_pos, output_pos) ==
    LET br == WireBranch(input_pos, output_pos)
    IN  CASE br = "pairwise" ->
               WireLoop(c, input_pos, output_pos, TRUE, 1, Len(input_pos))
          [] br = "fan_out" ->
               IF ~is_solid(c, input_pos[1]) THEN c
               ELSE WireLoop(c, input_pos, output_pos, FALSE, 1, Len(output_pos))
          [] br = "fan_in" ->
               IF ~is_solid(c, output_pos[1]) THEN c
               ELSE WireLoop(c, input_pos, output_pos, FALSE, 1, Len(input_pos))
          [] OTHER -> c

\* to_blueprint: the exported records, in gate order (the JSON text is not modelled).
to_blueprint(c) ==
    [i \in 1..Len(c.logic_gates) |->
        [color |-> c.logic_gates[i].color,
         controllers |-> c.logic_gates[i].connections,
         id |-> i - 1,
         mode |-> c.logic_gates[i].mode,
         pos |-> c.logic_gates[i].position]]

(***************************************************************************)
(* Driver of the Circuit methods: any sequence of add_logic and wire_gates *)
(* calls on one Circuit, with positions drawn from DriverPositions.        *)
(***************************************************************************)
DriverPositions == {<<0, 0, 0>>, <<0, 1, 0>>}
DriverModes == {"nor"}

RECURSIVE ListsUpTo(_)
ListsUpTo(k) ==
    IF k = 0 THEN {<<>>}
    ELSE LET shorter == ListsUpTo(k - 1)
         IN  shorter \cup {Append(l, p) : l \in {x \in shorter : Len(x) = k - 1},
                                           p \in DriverPositions}

PositionLists == ListsUpTo(MaxArity)

NoCall == [op |-> "none", position |-> <<>>, input_pos |-> <<>>, output_pos |-> <<>>]

BuilderIdle ==
    /\ entry = "none"
    /\ address_bit_width = 0
    /\ output_bit_width = 0
    /\ str_function = "none"
    /\ n = 0
    /\ split = 0
    /\ index = 0
    /\ ox = 0
    /\ oy = 0

SquareIdle ==
    /\ sq_args = <<>>
    /\ sq_ret = <<>>

InitDriver ==
    /\ logic_gates = EmptyCircuit.logic_gates
    /\ index_lut = EmptyCircuit.index_lut
    /\ id_counter = EmptyCircuit.id_counter
    /\ pc = "driver"
    /\ exc = NoExc
    /\ call = NoCall
    /\ nwires = 0
    /\ BuilderIdle
    /\ SquareIdle

SetCircuit(c) ==
    /\ logic_gates' = c.logic_gates
    /\ index_lut' = c.index_lut
    /\ id_counter' = c.id_counter

\* circuit.add_logic(LogicGate(position, mode)): the call, up to its return
DriverPlace(position, mode) ==
    /\ pc = "driver"
    /\ Len(logic_gates) < MaxGates
    /\ SetCircuit(add_logic(Circ, LogicGate(position, mode, "eeeeee")))
    /\ exc' = NoExc
    /\ call' = [NoCall EXCEPT !.op = "add_logic", !.position = position]
    /\ pc' = "called"
    /\ UNCHANGED <<nwires, builder_vars, square_vars>>

\* circuit.wire_gates(input_pos, output_pos): the call, up to its return or raise
DriverWire(input_pos, output_pos) ==
    /\ pc = "driver"
    /\ nwires < MaxWires
    /\ SetCircuit(wire_gates(Circ, input_pos, output_pos))
    /\ exc' = IF WireRaises(input_pos, output_pos) THEN "Exception" ELSE NoExc
    /\ call' = [NoCall EXCEPT !.op = "wire_gates", !.input_pos = input_pos,
                               !.output_pos = output_pos]
    /\ nwires' = nwires + 1
    /\ pc' = "called"
    /\ UNCHANGED <<builder_vars, square_vars>>

\* The driver goes on to its next call: the arguments and the outcome of the last
\* one are dropped (a raised exception is caught by the driver).
DriverResume ==
    /\ pc = "called"
    /\ pc' = "driver"
    /\ call' = NoCall
    /\ exc' = NoExc
    /\ UNCHANGED <<circuit_vars, nwires, builder_vars, square_vars>>

NextDriver ==
    \/ \E position \in DriverPositions, mode \in DriverModes : DriverPlace(position, mode)
    \/ \E input_pos \in PositionLists, output_pos \in PositionLists :
           DriverWire(input_pos, output_pos)
    \/ DriverResume

SpecDriver == InitDriver /\ [][NextDriver]_vars

(***************************************************************************)
(* square_func and the bit functions handed to create_lut.                 *)
(***************************************************************************)
square_func(idx, bit_width) ==
    LET sq == idx * idx
    IN  Zeros(bit_width - Len(BinDigits(sq))) \o BinDigits(sq)

\* Two caller-supplied bit functions that return exactly bit_width characters.
ones_func(idx, bit_width) == [i \in 1..bit_width |-> "1"]

low_bits_func(idx, bit_width) ==
    LET v == idx % Pow2(bit_width)
    IN  Zeros(bit_width - Len(BinDigits(v))) \o BinDigits(v)

BitFunctions == {"square_func", "ones_func", "low_bits_func"}

\* str_function(index, output_bit_width)
CallBitFunction(f, idx, bit_width) ==
    CASE f = "square_func" -> square_func(idx, bit_width)
      [] f = "ones_func" -> ones_func(idx, bit_width)
      [] OTHER -> low_bits_func(idx, bit_width)

(***************************************************************************)
(* create_decoder and create_lut, one action per loop iteration.           *)
(***************************************************************************)
InitBuilder ==
    /\ logic_gates = EmptyCircuit.logic_gates
    /\ index_lut = EmptyCircuit.index_lut
    /\ id_counter = EmptyCircuit.id_counter
    /\ pc = "start"
    /\ exc = NoExc
    /\ call = NoCall
    /\ nwires = 0
    /\ address_bit_width \in 1..MaxWidth
    /\ \/ /\ entry = "create_decoder"
          /\ output_bit_width = 0
          /\ str_function = "none"
       \/ /\ entry = "create_lut"
          /\ output_bit_width \in 1..MaxOutWidth
          /\ str_function \in BitFunctions
    /\ n = 0
    /\ split = 0
    /\ index = 0
    /\ ox = 0
    /\ oy = 0
    /\ SquareIdle

builder_args == <<entry, address_bit_width, output_bit_width, str_function>>

\* decoder = Circuit(); n = 2 ** address_bit_width; the first loop is entered
DecoderEnter ==
    /\ pc = "start"
    /\ SetCircuit(EmptyCircuit)
    /\ n' = Pow2(address_bit_width)
    /\ oy' = 0
    /\ pc' = "dec_bits"
    /\ UNCHANGED <<exc, driver_vars, builder_args, split, index, ox, square_vars>>

\* The three gates of address bit oy and the wire from the raw line to the other two.
DecoderBitBody(c, row) ==
    LET c1 == add_logic(c, LogicGate(<<0, row, 0>>, "and", "eeee22"))
        c2 == add_logic(c1, LogicGate(<<1, row, 0>>, "and", "222222"))
        c3 == add_logic(c2, LogicGate(<<2, row, 0>>, "nor", "222222"))
    IN  wire_gates(c3, <<<<0, row, 0>>>>, <<<<1, row, 0>>, <<2, row, 0>>>>)

\* for oy in range(address_bit_width): one iteration
DecoderBit ==
    /\ pc = "dec_bits"
    /\ oy < address_bit_width
    /\ SetCircuit(DecoderBitBody(Circ, oy))
    /\ oy' = oy + 1
    /\ UNCHANGED <<pc, exc, driver_vars, builder_args, n, split, index, ox, square_vars>>

\* index = 0; split = n // round(address_bit_width - 0.5); the grid loops are entered.
\* The division raises ZeroDivisionError when the rounded width is 0.
DecoderSplit ==
    /\ pc = "dec_bits"
    /\ oy >= address_bit_width
    /\ index' = 0
    /\ IF RoundHalf(address_bit_width) = 0
       THEN /\ exc' = "ZeroDivisionError"
            /\ pc' = "raised"
            /\ UNCHANGED <<split, ox, oy>>
       ELSE /\ split' = n \div RoundHalf(address_bit_width)
            /\ ox' = (n \div RoundHalf(address_bit_width)) + 2
            /\ oy' = 0
            /\ pc' = "dec_cells"
            /\ exc' = NoExc
    /\ UNCHANGED <<circuit_vars, driver_vars, builder_args, n, square_vars>>

\* number without the padding.
DecoderNumberUnpadded(w, idx) == BinDigits(idx)

\* number: bin(index)[2:] padded with zeros on the left to address_bit_width
DecoderNumber(w, idx) == Zeros(w - Len(BinDigits(idx))) \o BinDigits(idx)

\* The inputs with the columns exchanged: the true line for a "1".
DecoderInputsTrueForOne(w, number) ==
    [k \in 1..Len(number) |-> <<2 - IntOfChar(number[k]), w - (k - 1) - 1, 0>>]

\* [(1+int(char), address_bit_width-off-1, 0) for off, char in enumerate(number)]
DecoderInputs(w, number) ==
    [k \in 1..Len(number) |-> <<1 + IntOfChar(number[k]), w - (k - 1) - 1, 0>>]

\* The body of the grid loops of create_decoder.
DecoderCellBody(c, w, idx, col, row) ==
    LET c1 == add_logic(c, LogicGate(<<col, row, 0>>, "and", "222222"))
    IN  wire_gates(c1, DecoderInputs(w, DecoderNumber(w, idx)), <<<<col, row, 0>>>>)

\* for ox in range(split + 2, 2, -1): for oy in range(n // split): one iteration
DecoderCell ==
    /\ pc = "dec_cells"
    /\ ox > 2
    /\ oy < n \div split
    /\ SetCircuit(DecoderCellBody(Circ, address_bit_width, index, ox, oy))
    /\ index' = index + 1
    /\ IF oy + 1 < n \div split
       THEN /\ oy' = oy + 1
            /\ ox' = ox
       ELSE /\ oy' = 0
            /\ ox' = ox - 1
    /\ UNCHANGED <<pc, exc, driver_vars, builder_args, n, split, square_vars>>

\* return decoder: to the caller of create_decoder, or back into create_lut, whose
\* loop over the output gates is entered.
DecoderReturn ==
    /\ pc = "dec_cells"
    /\ ox <= 2
    /\ IF entry = "create_decoder"
       THEN /\ pc' = "done"
            /\ UNCHANGED <<oy>>
       ELSE /\ pc' = "lut_gates"
            /\ oy' = address_bit_width
    /\ UNCHANGED <<circuit_vars, exc, driver_vars, builder_args, n, split, index, ox,
                   square_vars>>

\* for oy in range(address_bit_width, address_bit_width+output_bit_width): one iteration
LutGate ==
    /\ pc = "lut_gates"
    /\ oy < address_bit_width + output_bit_width
    /\ SetCircuit(add_logic(Circ, LogicGate(<<0, oy, 0>>, "or", "22ee22")))
    /\ oy' = oy + 1
    /\ UNCHANGED <<pc, exc, driver_vars, builder_args, n, split, index, ox, square_vars>>

\* index = 0; split = n // round(address_bit_width - 0.5); the wiring loops are entered
LutSplit ==
    /\ pc = "lut_gates"
    /\ oy >= address_bit_width + output_bit_width
    /\ index' = 0
    /\ split' = n \div RoundHalf(address_bit_width)
    /\ ox' = 3
    /\ oy' = (n \div (n \div RoundHalf(address_bit_width))) - 1
    /\ pc' = "lut_cells"
    /\ UNCHANGED <<circuit_vars, exc, driver_vars, builder_args, n, square_vars>>

\* outputs: (0, off-address_bit_width, 0) for off, char in
\* enumerate(func, output_bit_width) if char == "1"
LutOutputs(w, m, func) ==
    LET IsOne(k) == func[k] = "1"
        hits == SelectSeq([k \in 1..Len(func) |-> k], IsOne)
    IN  [j \in 1..Len(hits) |-> <<0, (m + (hits[j] - 1)) - w, 0>>]

\* The body of the wiring loops of create_lut.
LutCellBody(c, w, m, f, idx, col, row) ==
    LET func == Reversed(CallBitFunction(f, idx, m))
    IN  wire_gates(c, <<<<col, row, 0>>>>, LutOutputs(w, m, func))

\* for ox in range(3, split + 3): for oy in range(n // split - 1, -1, -1): one iteration
LutCell ==
    /\ pc = "lut_cells"
    /\ ox < split + 3
    /\ oy >= 0
    /\ SetCircuit(LutCellBody(Circ, address_bit_width, output_bit_width, str_function,
                              index, ox, oy))
    /\ index' = index + 1
    /\ IF oy - 1 >= 0
       THEN /\ oy' = oy - 1
            /\ ox' = ox
       ELSE /\ oy' = (n \div split) - 1
            /\ ox' = ox + 1
    /\ UNCHANGED <<pc, exc, driver_vars, builder_args, n, split, square_vars>>

\* return lut
LutReturn ==
    /\ pc = "lut_cells"
    /\ ox >= split + 3
    /\ pc' = "done"
    /\ UNCHANGED <<circuit_vars, exc, driver_vars, builder_vars, square_vars>>

NextBuilder ==
    \/ DecoderEnter
    \/ DecoderBit
    \/ DecoderSplit
    \/ DecoderCell
    \/ DecoderReturn
    \/ LutGate
    \/ LutSplit
    \/ LutCell
    \/ LutReturn

SpecBuilder == InitBuilder /\ [][NextBuilder]_vars

(***************************************************************************)
(* square_func called on its own.                                          *)
(***************************************************************************)
InitSquare ==
    /\ logic_gates = EmptyCircuit.logic_gates
    /\ index_lut = EmptyCircuit.index_lut
    /\ id_counter = EmptyCircuit.id_counter
    /\ pc = "sq_call"
    /\ exc = NoExc
    /\ call = NoCall
    /\ nwires = 0
    /\ BuilderIdle
    /\ sq_args \in {<<i, m>> : i \in 0..MaxIndex, m \in 1..MaxOutWidth}
    /\ sq_ret = <<>>

\* square_func(index, bit_width) returns
SquareCall ==
    /\ pc = "sq_call"
    /\ sq_ret' = square_func(sq_args[1], sq_args[2])
    /\ pc' = "sq_done"
    /\ UNCHANGED <<circuit_vars, exc, driver_vars, builder_vars, sq_args>>

NextSquare == SquareCall

SpecSquare == InitSquare /\ [][NextSquare]_vars

(***************************************************************************)
(* The whole program: any of the three entry points.                       *)
(***************************************************************************)
Init == InitDriver \/ InitBuilder \/ InitSquare

Next == NextDriver \/ NextBuilder \/ NextSquare

Spec == Init /\ [][Next]_vars

(***************************************************************************)
(* Properties.  occupied / slot_at / place / wire of the specification are *)
(* is_solid / get_block / add_logic / wire_gates of the code.              *)
(***************************************************************************)

\* The slots (zero-based) of the gates whose position is p.
SlotsAt(p) == {s \in 0..(Len(logic_gates) - 1) : logic_gates[s + 1].position = p}

SetMin(S) == CHOOSE x \in S : \A y \in S : x <= y
SetMax(S) == CHOOSE x \in S : \A y \in S : y <= x

\* Every position a gate of the circuit has been placed at.
PlacedPositions == {logic_gates[i].position : i \in 1..Len(logic_gates)}

(* C5: no dangling references.  In every reachable state of the Circuit   *)
(* driver and of the builders, every entry of every gate's connections is *)
(* a slot s with 0 <= s < number of gates, and the exported record at     *)
(* index s carries id s.                                                  *)
C5_NoDanglingReferences ==
    LET childs == to_blueprint(Circ)
    IN  \A i \in 1..Len(childs) :
            \A k \in 1..Len(childs[i].controllers) :
                LET s == childs[i].controllers[k]
                IN  /\ s \in 0..(Len(childs) - 1)
                    /\ childs[s + 1].id = s

\* A finished create_lut whose decode gates drive other gates.
C5_Witness ==
    /\ pc = "done"
    /\ entry = "create_lut"
    /\ \E i \in 1..Len(logic_gates) :
           /\ logic_gates[i].position[1] >= 3
           /\ Len(logic_gates[i].connections) > 0

(* C6 as claimed: wire_gates raises if and only if both lists have length *)
(* >= 2 and their lengths are unequal.                                    *)
C6_RaisesIffBothAtLeastTwo ==
    (pc = "called" /\ call.op = "wire_gates") =>
        (exc = "Exception" <=>
            /\ Len(call.input_pos) >= 2
            /\ Len(call.output_pos) >= 2
            /\ Len(call.input_pos) # Len(call.output_pos))

(* C6 amended: wire_gates raises if and only if the two lengths are       *)
(* unequal and neither of them is 1 (so also for an empty list against a  *)
(* list of two or more).                                                  *)
C6_RaisesIffUnequalAndNeitherOne ==
    (pc = "called" /\ call.op = "wire_gates") =>
        (exc = "Exception" <=>
            /\ Len(call.input_pos) # Len(call.output_pos)
            /\ Len(call.input_pos) # 1
            /\ Len(call.output_pos) # 1)

\* wire_gates has raised on an empty input list against two outputs.
C6_Witness ==
    /\ pc = "called"
    /\ call.op = "wire_gates"
    /\ Len(call.input_pos) = 0
    /\ Len(call.output_pos) = 2
    /\ exc = "Exception"

\* The pairs (a, b) C7 names for a call wire(I, O), in order.
C7_Pairs(I, O) ==
    IF Len(I) = Len(O) THEN [i \in 1..Len(I) |-> <<I[i], O[i]>>]
    ELSE IF Len(I) = 1 THEN [j \in 1..Len(O) |-> <<I[1], O[j]>>]
    ELSE IF Len(O) = 1 THEN [i \in 1..Len(I) |-> <<I[i], O[1]>>]
    ELSE <<>>

\* The slots C7 says are appended to the connections of the gate at slot s.
C7_Added(c, I, O, s) ==
    LET Hit(pr) == /\ is_solid(c, pr[1])
                   /\ is_solid(c, pr[2])
                   /\ get_block(c, pr[1]) = s
        hits == SelectSeq(C7_Pairs(I, O), Hit)
    IN  [k \in 1..Len(hits) |-> get_block(c, hits[k][2])]

(* C7: a wire_gates call that does not raise appends, for each pair (a, b) *)
(* of its arity rule with both coordinates occupied, slot_at(b) to the     *)
(* connections of the gate at slot_at(a), in order, and changes nothing    *)
(* else: not the other gates, the gate list's length, the spatial index or *)
(* the counter.                                                            *)
C7_WireAddsExactlyThePairs ==
    [][(pc' = "called" /\ call'.op = "wire_gates" /\ exc' = NoExc) =>
         /\ logic_gates' =
               [i \in 1..Len(logic_gates) |->
                   [logic_gates[i] EXCEPT !.connections =
                       @ \o C7_Added(Circ, call'.input_pos, call'.output_pos, i - 1)]]
         /\ index_lut' = index_lut
         /\ id_counter' = id_counter]_vars

\* A fan-in call whose second source is unoccupied has added one connection.
C7_Witness ==
    /\ pc = "called"
    /\ call.op = "wire_gates"
    /\ exc = NoExc
    /\ Len(call.input_pos) = 2
    /\ Len(call.output_pos) = 1
    /\ is_solid(Circ, call.input_pos[1])
    /\ ~is_solid(Circ, call.input_pos[2])
    /\ is_solid(Circ, call.output_pos[1])
    /\ logic_gates[get_block(Circ, call.input_pos[1]) + 1].connections =
          <<get_block(Circ, call.output_pos[1])>>

(* C8 as claimed: last writer wins.  Every gate placed is in logic_gates   *)
(* at its creation-order slot, a coordinate is occupied once a gate has    *)
(* been placed there, and slot_at(p) is the slot of the gate placed at p   *)
(* last.                                                                   *)
C8_LastWriterWins ==
    /\ id_counter = Len(logic_gates)
    /\ \A p \in PlacedPositions :
           /\ is_solid(Circ, p)
           /\ get_block(Circ, p) = SetMax(SlotsAt(p))

(* C8 amended: first writer wins.  The same, but slot_at(p) is the slot of *)
(* the gate placed at p first, so the later gates are the ones the spatial *)
(* index does not reach.                                                   *)
C8_FirstWriterWins ==
    /\ id_counter = Len(logic_gates)
    /\ \A p \in PlacedPositions :
           /\ is_solid(Circ, p)
           /\ get_block(Circ, p) = SetMin(SlotsAt(p))

\* Two gates have been placed at one coordinate.
C8_Witness ==
    /\ pc = "called"
    /\ call.op = "add_logic"
    /\ Cardinality(SlotsAt(call.position)) = 2
    /\ get_block(Circ, call.position) = 0

(***************************************************************************)
(* Signal propagation, as the properties of the builders describe it: the  *)
(* raw input gates (0, oy, 0), oy < w, are held at the bits of the address *)
(* (row oy carries bit oy), every other gate computes its operation over   *)
(* the gates wired to it, and a gate nothing is wired to is low.           *)
(***************************************************************************)
PropagationRounds == 4

\* Bit number k (0 = least significant) of v.
BitOf(v, k) == (v \div Pow2(k)) % 2

\* For each gate (by element index), the element indexes of the gates wired to it.
Sources(gates) ==
    [g \in 1..Len(gates) |->
        {s \in 1..Len(gates) :
            \E k \in 1..Len(gates[s].connections) : gates[s].connections[k] = g - 1}]

GateOutput(mode, ins) ==
    LET high == Cardinality({x \in ins : x})
    IN  CASE mode = 0 -> ins # {} /\ \A x \in ins : x
          [] mode = 1 -> \E x \in ins : x
          [] mode = 2 -> high % 2 = 1
          [] mode = 3 -> ins # {} /\ ~(\A x \in ins : x)
          [] mode = 4 -> ~(\E x \in ins : x)
          [] OTHER -> ins # {} /\ high % 2 = 0

RECURSIVE Settle(_, _, _, _, _)
Settle(gates, src, held, v, rounds) ==
    IF rounds = 0 THEN v
    ELSE Settle(gates, src, held,
                [g \in 1..Len(gates) |->
                    IF g \in DOMAIN held THEN held[g]
                    ELSE GateOutput(gates[g].mode, {v[s] : s \in src[g]})],
                rounds - 1)

\* The raw input gates of a w-bit circuit held at the bits of addr.
Held(c, w, addr) ==
    LET rows == {r \in 0..(w - 1) : is_solid(c, <<0, r, 0>>)}
    IN  [g \in {get_block(c, <<0, r, 0>>) + 1 : r \in rows} |->
            BitOf(addr, c.logic_gates[g].position[2]) = 1]

\* The slots that are high once the address addr has propagated.
HighSlots(c, w, addr) ==
    LET held == Held(c, w, addr)
        start == [g \in 1..Len(c.logic_gates) |->
                     IF g \in DOMAIN held THEN held[g] ELSE FALSE]
        final == Settle(c.logic_gates, Sources(c.logic_gates), held, start,
                        PropagationRounds)
    IN  {g - 1 : g \in {x \in 1..Len(c.logic_gates) : final[x]}}

\* The slots of the decode gates (the gates at x >= 3).
DecodeSlots == {s \in 0..(Len(logic_gates) - 1) : logic_gates[s + 1].position[1] >= 3}

\* The bit function returns exactly bit_width characters for every address.
Conforming(f, w, m) ==
    \A a \in 0..(Pow2(w) - 1) : Len(CallBitFunction(f, a, m)) = m

DecoderReturned == pc = "done" /\ entry = "create_decoder"
LutReturned == pc = "done" /\ entry = "create_lut"

(* C1: in the circuit create_lut returns, for every address the output OR *)
(* gates (0, w+j, 0) that go high are exactly the j whose j-th character  *)
(* from the right of f(address, m) is "1".                                *)
C1_LutComputesFunction ==
    (LutReturned /\ Conforming(str_function, address_bit_width, output_bit_width)) =>
        \A a \in 0..(Pow2(address_bit_width) - 1) :
            LET high == HighSlots(Circ, address_bit_width, a)
                word == CallBitFunction(str_function, a, output_bit_width)
            IN  {j \in 0..(output_bit_width - 1) :
                    get_block(Circ, <<0, address_bit_width + j, 0>>) \in high}
                = {j \in 0..(output_bit_width - 1) : word[Len(word) - j] = "1"}

(* C2: create_decoder(w) returns normally, with exactly 3w + 2^w gates.   *)
C2_DecoderGateCount ==
    (entry = "create_decoder" /\ pc \in {"done", "raised"}) =>
        /\ pc = "done"
        /\ Len(logic_gates) = 3 * address_bit_width + Pow2(address_bit_width)

(* C3 as claimed: in the circuit create_decoder returns, every address    *)
(* makes exactly one decode gate active, the one created for that address *)
(* value (slot 3w + address).                                             *)
C3_OneHotAtOwnSlot ==
    DecoderReturned =>
        \A a \in 0..(Pow2(address_bit_width) - 1) :
            HighSlots(Circ, address_bit_width, a) \cap DecodeSlots
                = {3 * address_bit_width + a}

(* C3 amended: in the circuit create_decoder returns, the decode gates an *)
(* address makes active are exactly the gate created for the complemented *)
(* address value 2^w - 1 - address (slot 3w + 2^w - 1 - address) when the *)
(* builder created that gate, and none otherwise.                         *)
C3_OneHotAtComplementSlot ==
    DecoderReturned =>
        \A a \in 0..(Pow2(address_bit_width) - 1) :
            HighSlots(Circ, address_bit_width, a) \cap DecodeSlots
                = {3 * address_bit_width + (Pow2(address_bit_width) - 1 - a)}
                    \cap DecodeSlots

\* A returned 2-bit decoder in which address 0 activates the decode gate created last.
C3_Witness ==
    /\ DecoderReturned
    /\ address_bit_width = 2
    /\ HighSlots(Circ, 2, 0) \cap DecodeSlots = {9}

(* C4: in the circuit create_lut returns, the decode gate created for the *)
(* address value a (slot 3w + a) is wired to exactly the OR gates         *)
(* (0, w+k, 0) for which the reversed f(a, m) has "1" at position k.      *)
C4_DecodeGateWiredToItsWord ==
    (LutReturned /\ Conforming(str_function, address_bit_width, output_bit_width)) =>
        \A a \in 0..(Pow2(address_bit_width) - 1) :
            LET slot == 3 * address_bit_width + a
                func == Reversed(CallBitFunction(str_function, a, output_bit_width))
            IN  /\ slot \in DecodeSlots
                /\ {logic_gates[slot + 1].connections[k] :
                        k \in 1..Len(logic_gates[slot + 1].connections)}
                   = {get_block(Circ, <<0, address_bit_width + k, 0>>) :
                        k \in {x \in 0..(output_bit_width - 1) : func[x + 1] = "1"}}

\* How many connections of the circuit lead to slot s.
RECURSIVE CountIn(_, _)
CountIn(conns, s) ==
    IF conns = <<>> THEN 0
    ELSE (IF Head(conns) = s THEN 1 ELSE 0) + CountIn(Tail(conns), s)

RECURSIVE InDegree(_, _, _)
InDegree(gates, i, s) ==
    IF i > Len(gates) THEN 0
    ELSE CountIn(gates[i].connections, s) + InDegree(gates, i + 1, s)

\* Slot s receives a connection from the gate at position p.
WiredFrom(p, s) ==
    /\ is_solid(Circ, p)
    /\ CountIn(logic_gates[get_block(Circ, p) + 1].connections, s) = 1

\* The decode gate at slot 3w + a takes, for every bit position off (0 = most
\* significant), the line in column oneCol when that bit of a is 1 and the line in
\* column zeroCol when it is 0, and has no other input.
DecodeInputsAre(a, oneCol, zeroCol) ==
    LET w == address_bit_width
        slot == 3 * w + a
    IN  /\ \A off \in 0..(w - 1) :
              WiredFrom(<<IF BitOf(a, w - off - 1) = 1 THEN oneCol ELSE zeroCol,
                          w - off - 1, 0>>, slot)
        /\ InDegree(logic_gates, 1, slot) = w

(* C10 as claimed: in the circuit create_decoder returns, the decode gate  *)
(* created for address value a takes the true line (1, w-off-1, 0) where   *)
(* the bit of a is 1 and the complement line (2, w-off-1, 0) where it is   *)
(* 0, and nothing else.                                                    *)
C10_TrueLineWhereBitIsOne ==
    DecoderReturned =>
        \A a \in 0..(Pow2(address_bit_width) - 1) :
            (3 * address_bit_width + a) \in DecodeSlots /\ DecodeInputsAre(a, 1, 2)

(* C10 amended: every decode gate of the circuit create_decoder returns,   *)
(* created for address value a, takes the complement line (2, w-off-1, 0)  *)
(* where the bit of a is 1 and the true line (1, w-off-1, 0) where it is   *)
(* 0, and nothing else: exactly w inputs, one per address bit row.         *)
C10_ComplementLineWhereBitIsOne ==
    DecoderReturned =>
        \A a \in 0..(Pow2(address_bit_width) - 1) :
            (3 * address_bit_width + a) \in DecodeSlots => DecodeInputsAre(a, 2, 1)

\* A returned 3-bit decoder whose gate for address value 5 (101) takes the
\* complement lines of rows 2 and 0 and the true line of row 1.
C10_Witness ==
    /\ DecoderReturned
    /\ address_bit_width = 3
    /\ WiredFrom(<<2, 2, 0>>, 14)
    /\ WiredFrom(<<1, 1, 0>>, 14)
    /\ WiredFrom(<<2, 0, 0>>, 14)
    /\ InDegree(logic_gates, 1, 14) = 3

\* The number a string of binary digits denotes.
RECURSIVE BinValue(_)
BinValue(str) ==
    IF str = <<>> THEN 0
    ELSE 2 * BinValue(SubSeq(str, 1, Len(str) - 1)) + IntOfChar(str[Len(str)])

(* C9: square_func(index, m) returns exactly m characters over "0", "1":  *)
(* the binary digits of index^2, padded with zeros on the left when       *)
(* shorter than m and cut to m bits when longer.                          *)
C9_SquareHasExactWidth ==
    pc = "sq_done" =>
        /\ Len(sq_ret) = sq_args[2]
        /\ \A k \in 1..Len(sq_ret) : sq_ret[k] \in {"0", "1"}
        /\ BinValue(sq_ret) = (sq_args[1] * sq_args[1]) % Pow2(sq_args[2])

====
